---- MODULE Spec2Model ----
(***************************************************************************)
(* Version pipeline of node_reqwest (packages/meta):                       *)
(*   build.rs        get_version: the git fallback ladder                  *)
(*   src/lib.rs      Version::parse, npm_version, cdylib_win_rc            *)
(*   src/bin/npm_version.rs, packages/node/build.rs: the callers           *)
(* Text is modelled as the code sees it: a sequence of bytes (ASCII codes).*)
(***************************************************************************)
EXTENDS Integers, Sequences, FiniteSets, TLC

VARIABLES
    s, parsed,                                   \* Version::parse: input, result
    env, rpc, ran, directives, ver, mainRes,     \* build.rs
    file, budget, pc, raw, arg, content, out, pos, res, runs, writeLog, \* npm_version
    ecfg, epc, eres, envReads, compileCalls, resource   \* cdylib_win_rc

pvars == <<s, parsed>>
rvars == <<env, rpc, ran, directives, ver, mainRes>>
mvars == <<file, budget, pc, raw, arg, content, out, pos, res, runs, writeLog>>
evars == <<ecfg, epc, eres, envReads, compileCalls, resource>>
vars == <<pvars, rvars, mvars, evars>>

(* What each component's steps leave alone.                                *)
OnlyParse == UNCHANGED <<rvars, mvars, evars>>
OnlyResolve == UNCHANGED <<pvars, mvars, evars>>
OnlySync == UNCHANGED <<pvars, rvars, evars>>
OnlyEmbed == UNCHANGED <<pvars, rvars, mvars>>

----------------------------------------------------------------------------
(* Bytes the code names.                                                   *)
ByteV == 118
ByteDot == 46
Byte0 == 48
Byte9 == 57
MinLen == 6

(* Bounds of the model.                                                    *)
MaxLen == 7

(* Option<T>: the empty sequence is None, <<x>> is Some(x).                *)
None == <<>>
Some(x) == <<x>>
IsSome(o) == Len(o) = 1

(* struct Version and Version::new                                         *)
Version_new(major, minor, patch) == [major |-> major, minor |-> minor, patch |-> patch]

(* #[derive(Default)] on Version: every field is u64::default() = 0        *)
Version_default == Version_new(0, 0, 0)

(* A fallback other than the default: unwrap_or(Version::new(0, 0, 1)).    *)
unwrap_or_one(o) == IF IsSome(o) THEN o[1] ELSE Version_new(0, 0, 1)

(* Option::unwrap_or_default as the callers use it on SEMVER               *)
unwrap_or_default(o) == IF IsSome(o) THEN o[1] ELSE Version_default

(* Decimal text of a u64 as `{}` formats it (minimal form, no sign).       *)
RECURSIVE Dec(_)
Dec(n) == IF n < 10 THEN <<Byte0 + n>> ELSE Dec(n \div 10) \o <<Byte0 + (n % 10)>>

(* impl Display for Version: "{major}.{minor}.{patch}"                     *)
Version_to_string(v) ==
    Dec(v.major) \o <<ByteDot>> \o Dec(v.minor) \o <<ByteDot>> \o Dec(v.patch)

(* The while loop of Version::parse.  offset is 1-based here (the code's   *)
(* offset + 1); version is the [u64; 3] accumulator, segment its index.    *)
(* Within MaxLen digits the accumulator stays far below 2^64, so the       *)
(* multiplication never overflows in the model.                            *)
RECURSIVE parse_loop(_, _, _, _)
parse_loop(bytes, offset, version, segment) ==
    IF offset <= Len(bytes) /\ segment < 3
    THEN IF bytes[offset] = ByteDot
         THEN parse_loop(bytes, offset + 1, version, segment + 1)
         ELSE IF bytes[offset] < Byte0 \/ bytes[offset] > Byte9
              THEN None
              ELSE parse_loop(bytes, offset + 1,
                              [version EXCEPT ![segment + 1] =
                                   @ * 10 + (bytes[offset] - Byte0)],
                              segment)
    ELSE IF segment # 2
         THEN None
         ELSE Some(Version_new(version[1], version[2], version[3]))

(* Version::parse                                                          *)
Version_parse(bytes) ==
    IF Len(bytes) < MinLen \/ bytes[1] # ByteV
    THEN None
    ELSE parse_loop(bytes, 2, <<0, 0, 0>>, 0)

----------------------------------------------------------------------------
(* Inputs of the parser check: every byte string up to MaxLen over         *)
(* 'v', '.', '1', '2', '-'.                                                *)
Alphabet == {ByteV, ByteDot, 49, 50, 45}

StringsUpTo(n) == UNION {[1..k -> Alphabet] : k \in 0..n}

(* The parser's result slot, empty before the call.                        *)
NotParsed == [done |-> FALSE, val |-> None]

----------------------------------------------------------------------------
(* build.rs: the resolver.                                                 *)
(* A child process ends in one of: it could not be launched (spawn_err),   *)
(* or it exited (success or not) with some bytes on stdout, which are      *)
(* valid UTF-8 or not.                                                     *)
Exited(success, utf8, stdout) ==
    [kind |-> "exit", success |-> success, utf8 |-> utf8, stdout |-> stdout]
SpawnErr == [kind |-> "spawn_err", success |-> FALSE, utf8 |-> TRUE, stdout |-> <<>>]

(* Result<T>: ok with a value, or an error with its context message.       *)
Ok(v) == [ok |-> TRUE, val |-> v, err |-> ""]
Err(msg) == [ok |-> FALSE, val |-> <<>>, err |-> msg]

(* "undefined"                                                             *)
Sentinel == <<117, 110, 100, 101, 102, 105, 110, 101, 100>>

(* str::trim: strips leading and trailing whitespace.                      *)
White == {9, 10, 13, 32}
RECURSIVE TrimStart(_)
TrimStart(b) == IF b # <<>> /\ b[1] \in White THEN TrimStart(Tail(b)) ELSE b
RECURSIVE TrimEnd(_)
TrimEnd(b) ==
    IF b # <<>> /\ b[Len(b)] \in White THEN TrimEnd(SubSeq(b, 1, Len(b) - 1)) ELSE b
Trim(b) == TrimEnd(TrimStart(b))

(* The repository the build runs in, as git reports it.  Commits are       *)
(* numbered 1..head on the current line of history (head = 0: none yet);   *)
(* tagAt is the commit the tag points at (0: no tag).                      *)
MaxCommits == 2
TagA == <<118, 49, 46, 50, 46, 51>>         \* "v1.2.3"
TagB == <<118, 49, 48, 46, 50, 46, 51>>     \* "v10.2.3"
Tags == {TagA, TagB}
BranchName == <<109, 97, 105, 110>>         \* "main"
(* Abbreviated commit id of commit i, like the test's "c24f925".           *)
Hash(i) == <<99, 50, 52, 102, 57, 50, Byte0 + i>>

Faults == {"none", "spawn_err", "exit_fail", "bad_utf8", "blank"}
Faulty(f) ==
    CASE f = "spawn_err" -> SpawnErr
      [] f = "exit_fail" -> Exited(FALSE, FALSE, <<255>>)
      [] f = "bad_utf8"  -> Exited(TRUE, FALSE, <<255>>)
      [] f = "blank"     -> Exited(TRUE, TRUE, <<32, 10>>)

(* `git describe --tags`: the tag itself when HEAD is the tagged commit;   *)
(* "<tag>-<commits since>-g<abbreviated id>" when HEAD is past it (the     *)
(* "v1.0.81-2-ge6a4f89" of version_parsing_test); non-zero exit when       *)
(* nothing can be described.                                               *)
DescribeText(tag, tagAt, head) ==
    IF tagAt = head
    THEN tag
    ELSE tag \o <<45>> \o Dec(head - tagAt) \o <<45, 103>> \o Hash(head)
(* The command with --abbrev=0: the nearest tag alone, whatever HEAD is.   *)
GitDescribe_abbrev0(e) ==
    IF e.head = 0 \/ e.tagAt = 0
    THEN Exited(FALSE, TRUE, <<>>)
    ELSE Exited(TRUE, TRUE, e.tag \o <<10>>)

GitDescribe(e) ==
    IF e.head = 0 \/ e.tagAt = 0
    THEN Exited(FALSE, TRUE, <<>>)
    ELSE Exited(TRUE, TRUE, DescribeText(e.tag, e.tagAt, e.head) \o <<10>>)

(* `git rev-parse --short HEAD^{commit}`                                   *)
GitRevParse(e) ==
    IF e.head = 0 THEN Exited(FALSE, TRUE, <<>>)
    ELSE Exited(TRUE, TRUE, Hash(e.head) \o <<10>>)

(* `git branch --show-current`: prints nothing on a detached HEAD.         *)
GitBranch(e) ==
    IF e.detached THEN Exited(TRUE, TRUE, <<>>)
    ELSE Exited(TRUE, TRUE, BranchName \o <<10>>)

(* What each Command::new("git")... call of build.rs comes back with.      *)
RunCommand(e, cmd) ==
    IF e.fault[cmd] # "none" THEN Faulty(e.fault[cmd])
    ELSE CASE cmd = "branch"   -> GitBranch(e)
           [] cmd = "describe" -> GitDescribe(e)
           [] cmd = "revparse" -> GitRevParse(e)

Envs ==
    [probe : {"ok", "fail", "spawn_err"}, head : 0..MaxCommits, tagAt : 0..MaxCommits,
     tag : Tags, detached : BOOLEAN,
     fault : [{"branch", "describe", "revparse"} -> Faults],
     gitDirAtRoot : BOOLEAN, outDir : {"ok", "unset", "write_fail"}]

(* fn valid_git_repo: Ok(status) if status.success()                       *)
valid_git_repo(e) == e.probe = "ok"

(* The branch query with its two `?` replaced by a fallback to None.       *)
git_branch_show_current_lenient(o) ==
    IF o.kind = "spawn_err" THEN Ok(None)
    ELSE IF ~o.success THEN Ok(None)
    ELSE IF ~o.utf8 THEN Ok(None)
    ELSE IF Trim(o.stdout) = <<>> THEN Ok(None) ELSE Ok(Some(Trim(o.stdout)))

(* fn git_branch_show_current, given what the command came back with       *)
git_branch_show_current(o) ==
    IF o.kind = "spawn_err" THEN Err("Failed to run git branch --show-current")
    ELSE IF ~o.success THEN Ok(None)
    ELSE IF ~o.utf8 THEN Err("valid UTF-8")
    ELSE IF Trim(o.stdout) = <<>> THEN Ok(None) ELSE Ok(Some(Trim(o.stdout)))

(* The describe query without its check of output.status.success().       *)
git_describe_tags_unchecked(o) ==
    IF o.kind = "spawn_err" THEN Err("Failed to run git describe --tags")
    ELSE IF ~o.utf8 THEN Err("valid UTF-8")
    ELSE IF Trim(o.stdout) = <<>> THEN Ok(None) ELSE Ok(Some(Trim(o.stdout)))

(* fn git_describe_tags                                                    *)
git_describe_tags(o) ==
    IF o.kind = "spawn_err" THEN Err("Failed to run git describe --tags")
    ELSE IF ~o.success THEN Ok(None)
    ELSE IF ~o.utf8 THEN Err("valid UTF-8")
    ELSE IF Trim(o.stdout) = <<>> THEN Ok(None) ELSE Ok(Some(Trim(o.stdout)))

(* fn git_rev_parse_commit_hash                                            *)
git_rev_parse_commit_hash(o) ==
    IF o.kind = "spawn_err" THEN Err("Failed to run git rev-parse --short HEAD")
    ELSE IF ~o.success THEN Ok(None)
    ELSE IF ~o.utf8 THEN Err("valid UTF-8")
    ELSE IF Trim(o.stdout) = <<>> THEN Ok(None) ELSE Ok(Some(Trim(o.stdout)))

(* The rerun-if-changed lines rerun_if_git_ref_changed prints once the     *)
(* branch query has answered b (an Option<String>).  The .git directory is *)
(* looked for at ../../.git; a branch has a ref file once it has a commit. *)
RerunLines(e, b) ==
    (IF e.gitDirAtRoot THEN <<"HEAD">> ELSE <<>>)
    \o (IF IsSome(b) /\ e.gitDirAtRoot /\ e.head > 0 THEN <<"refs/heads">> ELSE <<>>)
    \o (IF e.gitDirAtRoot THEN <<"refs/tags">> ELSE <<>>)

----------------------------------------------------------------------------
(* src/lib.rs: npm_version.  package.json is a sequence of bytes.  The     *)
(* documents of the model are the JSON values a manifest is made of here:  *)
(* an object whose members are strings (in file order), and, as the one    *)
(* value that is valid JSON but no object, the empty array.                *)
Ascii == [quote |-> 34, colon |-> 58, comma |-> 44, lbrace |-> 123, rbrace |-> 125,
          lbracket |-> 91, rbracket |-> 93, newline |-> 10, space |-> 32,
          backslash |-> 92]
Quote == Ascii.quote
Colon == Ascii.colon
Comma == Ascii.comma
LBrace == Ascii.lbrace
RBrace == Ascii.rbrace
LBracket == Ascii.lbracket
RBracket == Ascii.rbracket
Newline == Ascii.newline
Space == Ascii.space
Backslash == Ascii.backslash

KeyName == <<110, 97, 109, 101>>                    \* "name"
KeyVersion == <<118, 101, 114, 115, 105, 111, 110>> \* "version"

Object(entries) == [t |-> "object", entries |-> entries]
EmptyArray == [t |-> "array", entries |-> <<>>]
Entry(k, v) == [k |-> k, v |-> v]

(* serde_json::Map::insert with preserve_order (an IndexMap): an existing  *)
(* key keeps its place and takes the new value, a new key goes last.       *)
RECURSIVE KeyIndex(_, _, _)
KeyIndex(entries, k, i) ==
    IF i > Len(entries) THEN 0
    ELSE IF entries[i].k = k THEN i ELSE KeyIndex(entries, k, i + 1)
(* An insert that always appends, as a plain list of pairs would.         *)
map_insert_append(entries, k, v) == Append(entries, Entry(k, v))

map_insert(entries, k, v) ==
    LET i == KeyIndex(entries, k, 1) IN
    IF i = 0 THEN Append(entries, Entry(k, v))
    ELSE [entries EXCEPT ![i] = Entry(k, v)]

(* JSON text of a document: indent = 0 is the compact form, otherwise the  *)
(* pretty form with that many spaces per level.                            *)
RECURSIVE Spaces(_)
Spaces(n) == IF n = 0 THEN <<>> ELSE <<Space>> \o Spaces(n - 1)
JString(b) == <<Quote>> \o b \o <<Quote>>
RECURSIVE RenderMembers(_, _, _)
RenderMembers(entries, i, indent) ==
    IF i > Len(entries) THEN <<>>
    ELSE (IF i > 1 THEN <<Comma>> ELSE <<>>)
         \o (IF indent > 0 THEN <<Newline>> \o Spaces(indent) ELSE <<>>)
         \o JString(entries[i].k) \o <<Colon>>
         \o (IF indent > 0 THEN <<Space>> ELSE <<>>)
         \o JString(entries[i].v)
         \o RenderMembers(entries, i + 1, indent)
Render(doc, indent) ==
    IF doc.t = "array" THEN <<LBracket, RBracket>>
    ELSE IF doc.entries = <<>> THEN <<LBrace, RBrace>>
    ELSE <<LBrace>> \o RenderMembers(doc.entries, 1, indent)
         \o (IF indent > 0 THEN <<Newline>> ELSE <<>>) \o <<RBrace>>

(* serde_json::to_string_pretty: PrettyFormatter's two-space indent.       *)
to_string_pretty(doc) == Render(doc, 2)

(* serde_json::from_str, on the documents above.  Whitespace between       *)
(* tokens is skipped; a string runs to its closing quote and holds no      *)
(* control byte; anything but whitespace after the value is an error.      *)
RECURSIVE SkipWs(_, _)
SkipWs(b, i) == IF i <= Len(b) /\ b[i] \in White THEN SkipWs(b, i + 1) ELSE i
RECURSIVE ScanString(_, _)
ScanString(b, i) ==
    IF i > Len(b) THEN 0
    ELSE IF b[i] = Quote THEN i
    ELSE IF b[i] < Space \/ b[i] = Backslash THEN 0
    ELSE ScanString(b, i + 1)
ParseFail == [ok |-> FALSE, doc |-> EmptyArray, next |-> 0]
At(b, i, c) == i <= Len(b) /\ b[i] = c
RECURSIVE ParseMembers(_, _, _)
ParseMembers(b, i, acc) ==
    IF ~At(b, i, Quote) THEN ParseFail ELSE
    LET ke == ScanString(b, i + 1) IN
    IF ke = 0 THEN ParseFail ELSE
    LET c == SkipWs(b, ke + 1) IN
    IF ~At(b, c, Colon) THEN ParseFail ELSE
    LET vs == SkipWs(b, c + 1) IN
    IF ~At(b, vs, Quote) THEN ParseFail ELSE
    LET ve == ScanString(b, vs + 1) IN
    IF ve = 0 THEN ParseFail ELSE
    LET n == SkipWs(b, ve + 1)
        acc2 == map_insert(acc, SubSeq(b, i + 1, ke - 1), SubSeq(b, vs + 1, ve - 1))
    IN  IF At(b, n, Comma) THEN ParseMembers(b, SkipWs(b, n + 1), acc2)
        ELSE IF At(b, n, RBrace)
             THEN [ok |-> TRUE, doc |-> Object(acc2), next |-> n + 1]
             ELSE ParseFail
ParseValue(b, i) ==
    IF At(b, i, LBrace)
    THEN LET j == SkipWs(b, i + 1) IN
         IF At(b, j, RBrace) THEN [ok |-> TRUE, doc |-> Object(<<>>), next |-> j + 1]
         ELSE ParseMembers(b, j, <<>>)
    ELSE IF At(b, i, LBracket)
    THEN LET j == SkipWs(b, i + 1) IN
         IF At(b, j, RBracket) THEN [ok |-> TRUE, doc |-> EmptyArray, next |-> j + 1]
         ELSE ParseFail
    ELSE ParseFail
from_str(b) ==
    LET r == ParseValue(b, SkipWs(b, 1)) IN
    IF r.ok /\ SkipWs(b, r.next) > Len(b) THEN r ELSE ParseFail

(* Lines 92-104 of npm_version: parse, set "version" when the value is an  *)
(* object (as_object_mut), serialize, push('\n').                          *)
new_content(text, version) ==
    LET r == from_str(text)
        json == IF r.doc.t = "object"
                THEN Object(map_insert(r.doc.entries, KeyVersion, Version_to_string(version)))
                ELSE r.doc
    IN  IF ~r.ok THEN Err("Failed to parse package.json")
        ELSE Ok(to_string_pretty(json) \o <<Newline>>)

----------------------------------------------------------------------------
(* The manifests the runs start from: a few documents, each written        *)
(* compactly, in the normalized form (two spaces, one trailing newline)    *)
(* and with four spaces; an empty file and a cut-off one.                  *)
StrP == <<112>>                              \* "p"
Str000 == <<48, 46, 48, 46, 48>>             \* "0.0.0"
Str9 == <<57>>                               \* "9"
Docs ==
    { Object(<<Entry(KeyName, StrP)>>),
      Object(<<Entry(KeyName, StrP), Entry(KeyVersion, Str000)>>),
      Object(<<Entry(KeyVersion, Version_to_string(Version_new(1, 2, 3))),
               Entry(KeyName, StrP)>>),
      Object(<<>>),
      EmptyArray }
(* A file may repeat a key; from_str keeps the last value.                 *)
DupEntries == <<Entry(KeyVersion, Str000), Entry(KeyName, StrP), Entry(KeyVersion, Str9)>>
Normalized(doc) == Render(doc, 2) \o <<Newline>>
InitialFiles ==
    {Render(d, 0) : d \in Docs \cup {Object(DupEntries)}}
    \cup {Normalized(d) : d \in Docs \cup {Object(DupEntries)}}
    \cup {Render(d, 4) \o <<Newline>> : d \in Docs}
    \cup {<<>>, <<LBrace, Quote, 110>>}

(* The VERSION strings a build can have compiled in: what get_version      *)
(* returns.                                                                *)
RawVersions == {Sentinel, Hash(1), TagA, TagB, DescribeText(TagA, 1, 2)}

Procs == {1, 2}
MaxRuns == 2
WriteUnit == 16

(* write(2) at offset pos: bytes past the end of the file extend it, a gap *)
(* reads as zero bytes, bytes after the chunk stay.                        *)
Max(a, b) == IF a > b THEN a ELSE b
Overlay(f, at, chunk) ==
    [i \in 1..Max(Len(f), at + Len(chunk)) |->
        IF i > at /\ i <= at + Len(chunk) THEN chunk[i - at]
        ELSE IF i <= Len(f) THEN f[i] ELSE 0]

(* How many bytes one write call takes of `rem` remaining: all of them, or *)
(* a short write of WriteUnit.                                             *)
ChunkSizes(rem) == {rem} \cup (IF rem > WriteUnit THEN {WriteUnit} ELSE {})

Idle == [ok |-> TRUE, val |-> <<>>, err |-> "none yet"]

(* npm_version returns: the run is recorded with the file as it left it.   *)
Finish(p, result, fileAfter) ==
    /\ res' = [res EXCEPT ![p] = result]
    /\ pc' = [pc EXCEPT ![p] = "idle"]
    /\ runs' = Append(runs, [p |-> p, raw |-> raw[p], v |-> arg[p],
                             pre |-> content[p].pre, post |-> fileAfter,
                             res |-> result])

(* bin/npm_version.rs main: SEMVER.unwrap_or_default(), then npm_version.  *)
(* SEMVER is Version::parse(VERSION).                                      *)
SEMVER(rawVersion) == Version_parse(rawVersion)
npm_version_main(p) ==
    /\ pc[p] = "idle" /\ budget[p] > 0
    /\ \E r \in RawVersions :
         /\ raw' = [raw EXCEPT ![p] = r]
         /\ arg' = [arg EXCEPT ![p] = unwrap_or_default(SEMVER(r))]
    /\ budget' = [budget EXCEPT ![p] = @ - 1]
    /\ content' = [content EXCEPT ![p] = [pre |-> file, text |-> <<>>]]
    /\ pc' = [pc EXCEPT ![p] = "read"]
    /\ UNCHANGED <<file, out, pos, res, runs, writeLog>>
    /\ OnlySync

(* read_to_string(path): line 90                                           *)
read_ok(p) ==
    /\ pc[p] = "read"
    /\ content' = [content EXCEPT ![p].text = file]
    /\ pc' = [pc EXCEPT ![p] = "parse"]
    /\ UNCHANGED <<file, budget, raw, arg, out, pos, res, runs, writeLog>>
    /\ OnlySync

read_fail(p) ==
    /\ pc[p] = "read"
    /\ Finish(p, Err("Failed to read package.json"), file)
    /\ UNCHANGED <<file, budget, raw, arg, content, out, pos, writeLog>>
    /\ OnlySync

(* lines 92-104: from_str, insert, to_string_pretty, push                  *)
transform(p) ==
    /\ pc[p] = "parse"
    /\ LET r == new_content(content[p].text, arg[p]) IN
       IF r.ok
       THEN /\ out' = [out EXCEPT ![p] = r.val]
            /\ pc' = [pc EXCEPT ![p] = "create"]
            /\ UNCHANGED <<res, runs>>
       ELSE /\ Finish(p, r, file)
            /\ UNCHANGED out
    /\ UNCHANGED <<file, budget, raw, arg, content, pos, writeLog>>
    /\ OnlySync

(* std::fs::write, line 105: File::create truncates the file, write_all    *)
(* then writes the buffer in one or more write calls.                      *)
create_ok(p) ==
    /\ pc[p] = "create"
    /\ file' = <<>>
    /\ pos' = [pos EXCEPT ![p] = 0]
    /\ pc' = [pc EXCEPT ![p] = "write"]
    /\ writeLog' = Append(writeLog, p)
    /\ UNCHANGED <<budget, raw, arg, content, out, res, runs>>
    /\ OnlySync

create_fail(p) ==
    /\ pc[p] = "create"
    /\ Finish(p, Err("Failed to write package.json"), file)
    /\ UNCHANGED <<file, budget, raw, arg, content, out, pos, writeLog>>
    /\ OnlySync

write_chunk(p) ==
    /\ pc[p] = "write"
    /\ \E n \in ChunkSizes(Len(out[p]) - pos[p]) :
         LET f2 == Overlay(file, pos[p], SubSeq(out[p], pos[p] + 1, pos[p] + n)) IN
         /\ file' = f2
         /\ pos' = [pos EXCEPT ![p] = @ + n]
         /\ IF pos[p] + n = Len(out[p])
            THEN Finish(p, Ok(<<>>), f2)
            ELSE UNCHANGED <<pc, res, runs>>
    /\ writeLog' = Append(writeLog, p)
    /\ UNCHANGED <<budget, raw, arg, content, out>>
    /\ OnlySync

write_fail(p) ==
    /\ pc[p] = "write"
    /\ Finish(p, Err("Failed to write package.json"), file)
    /\ UNCHANGED <<file, budget, raw, arg, content, out, pos, writeLog>>
    /\ OnlySync

----------------------------------------------------------------------------
(* build.rs, step by step.  ver is get_version's Result<String>.           *)
NoVersion == [ok |-> TRUE, val |-> <<>>, err |-> "none yet"]

(* main, line 128: OUT_DIR must be set.                                    *)
main_out_dir ==
    /\ rpc = "main"
    /\ IF env.outDir = "unset"
       THEN /\ mainRes' = Err("OUT_DIR is set by cargo")
            /\ rpc' = "done"
       ELSE /\ rpc' = "probe"
            /\ UNCHANGED mainRes
    /\ UNCHANGED <<env, ran, directives, ver>>
    /\ OnlyResolve

(* get_version, line 115: if valid_git_repo() ... else "undefined"         *)
get_version_probe ==
    /\ rpc = "probe"
    /\ ran' = Append(ran, "status")
    /\ IF valid_git_repo(env)
       THEN /\ rpc' = "rerun"
            /\ UNCHANGED ver
       ELSE /\ ver' = Ok(Sentinel)
            /\ rpc' = "write"
    /\ UNCHANGED <<env, directives, mainRes>>
    /\ OnlyResolve

(* rerun_if_git_ref_changed()?, line 116.  HEAD's line is printed before   *)
(* the branch query runs; an error of the query ends the function there.   *)
rerun_if_git_ref_changed ==
    /\ rpc = "rerun"
    /\ ran' = Append(ran, "branch")
    /\ LET b == git_branch_show_current(RunCommand(env, "branch")) IN
       IF b.ok
       THEN /\ directives' = RerunLines(env, b.val)
            /\ rpc' = "describe"
            /\ UNCHANGED ver
       ELSE /\ directives' = (IF env.gitDirAtRoot THEN <<"HEAD">> ELSE <<>>)
            /\ ver' = Err(b.err)
            /\ rpc' = "write"
    /\ UNCHANGED <<env, mainRes>>
    /\ OnlyResolve

(* if let Some(tag) = git_describe_tags()? { return Ok(tag) }, line 117    *)
get_version_describe ==
    /\ rpc = "describe"
    /\ ran' = Append(ran, "describe")
    /\ LET r == git_describe_tags(RunCommand(env, "describe")) IN
       IF ~r.ok THEN ver' = Err(r.err) /\ rpc' = "write"
       ELSE IF IsSome(r.val) THEN ver' = Ok(r.val[1]) /\ rpc' = "write"
       ELSE rpc' = "revparse" /\ UNCHANGED ver
    /\ UNCHANGED <<env, directives, mainRes>>
    /\ OnlyResolve

(* if let Some(hash) = git_rev_parse_commit_hash()? { return Ok(hash) }    *)
(* and the final Ok("undefined"), lines 120-124                            *)
get_version_rev_parse ==
    /\ rpc = "revparse"
    /\ ran' = Append(ran, "revparse")
    /\ LET r == git_rev_parse_commit_hash(RunCommand(env, "revparse")) IN
       IF ~r.ok THEN ver' = Err(r.err)
       ELSE IF IsSome(r.val) THEN ver' = Ok(r.val[1])
       ELSE ver' = Ok(Sentinel)
    /\ rpc' = "write"
    /\ UNCHANGED <<env, directives, mainRes>>
    /\ OnlyResolve

(* main, line 129: fs::write(out_dir.join("version.txt"), get_version()?)? *)
main_write ==
    /\ rpc = "write"
    /\ mainRes' = IF ~ver.ok THEN Err(ver.err)
                  ELSE IF env.outDir = "write_fail" THEN Err("write version.txt")
                  ELSE Ok(ver.val)
    /\ rpc' = "done"
    /\ UNCHANGED <<env, ran, directives, ver>>
    /\ OnlyResolve

----------------------------------------------------------------------------
(* src/lib.rs: cdylib_win_rc, called from the build scripts of             *)
(* packages/node and packages/impl and from cdylib_win_rc_test.            *)
TargetEnvs == {"msvc", "gnu", "musl", ""}
Callers == {"build", "test"}
EmbedConfigs ==
    {[targetEnv |-> t, pkgName |-> n, compileOk |-> c, raw |-> r, caller |-> k] :
        t \in TargetEnvs, n \in BOOLEAN, c \in BOOLEAN, r \in RawVersions,
        k \in Callers}
NoResource == [product |-> "", filename |-> "", version |-> <<>>]

(* The caller's arguments: build.rs passes SEMVER.unwrap_or_default().     *)
EmbedVersion(c) ==
    IF c.caller = "build" THEN unwrap_or_default(SEMVER(c.raw)) ELSE Version_new(1, 2, 3)
EmbedProduct(c) == IF c.caller = "build" THEN "Node Reqwest" ELSE "TestProduct"
EmbedFilename(c) == IF c.caller = "build" THEN "node_reqwest.node" ELSE "test.dll"

(* The gate written for every Windows toolchain instead of msvc alone.     *)
embedding_active_windows(c) == c.targetEnv \in {"msvc", "gnu"}

(* cfg!(target_env = "msvc"), line 126                                     *)
embedding_active(c) == c.targetEnv = "msvc"

(* if !cfg!(target_env = "msvc") { return Ok(()) }                         *)
cdylib_check_target ==
    /\ epc = "start"
    /\ IF ~embedding_active(ecfg)
       THEN epc' = "done" /\ eres' = Ok(<<>>)
       ELSE epc' = "env" /\ UNCHANGED eres
    /\ UNCHANGED <<ecfg, envReads, compileCalls, resource>>
    /\ OnlyEmbed

(* var("CARGO_PKG_NAME").context(...)?, line 130                           *)
cdylib_read_pkg_name ==
    /\ epc = "env"
    /\ envReads' = envReads + 1
    /\ IF ecfg.pkgName
       THEN epc' = "compile" /\ UNCHANGED eres
       ELSE epc' = "done" /\ eres' = Err("CARGO_PKG_NAME is set by cargo for build.rs")
    /\ UNCHANGED <<ecfg, compileCalls, resource>>
    /\ OnlyEmbed

(* lines 133-160: the resource is filled in and res.compile() run.         *)
cdylib_compile ==
    /\ epc = "compile"
    /\ compileCalls' = compileCalls + 1
    /\ resource' = [product |-> EmbedProduct(ecfg), filename |-> EmbedFilename(ecfg),
                    version |-> Version_to_string(EmbedVersion(ecfg)) \o <<ByteDot, Byte0>>]
    /\ eres' = IF ecfg.compileOk THEN Ok(<<>>)
               ELSE Err("failed to compile windows resource")
    /\ epc' = "done"
    /\ UNCHANGED <<ecfg, envReads>>
    /\ OnlyEmbed

----------------------------------------------------------------------------
(* Version::parse applied to the input.                                    *)
apply_parse ==
    /\ ~parsed.done
    /\ parsed' = [done |-> TRUE, val |-> Version_parse(s)]
    /\ UNCHANGED s
    /\ OnlyParse

----------------------------------------------------------------------------
(* Each component at rest, for the specifications that do not run it.      *)
RestParse == s = <<>> /\ parsed = [done |-> TRUE, val |-> None]
RestResolve ==
    /\ env = [probe |-> "fail", head |-> 0, tagAt |-> 0, tag |-> TagA, detached |-> FALSE,
              fault |-> [c \in {"branch", "describe", "revparse"} |-> "none"],
              gitDirAtRoot |-> FALSE, outDir |-> "ok"]
    /\ rpc = "off" /\ ran = <<>> /\ directives = <<>>
    /\ ver = NoVersion /\ mainRes = NoVersion
RestSync ==
    /\ file = <<>>
    /\ budget = [p \in Procs |-> 0]
    /\ pc = [p \in Procs |-> "idle"]
    /\ raw = [p \in Procs |-> Sentinel]
    /\ arg = [p \in Procs |-> Version_default]
    /\ content = [p \in Procs |-> [pre |-> <<>>, text |-> <<>>]]
    /\ out = [p \in Procs |-> <<>>]
    /\ pos = [p \in Procs |-> 0]
    /\ res = [p \in Procs |-> Idle]
    /\ runs = <<>> /\ writeLog = <<>>
RestEmbed ==
    /\ ecfg = [targetEnv |-> "", pkgName |-> FALSE, compileOk |-> FALSE,
               raw |-> Sentinel, caller |-> "build"]
    /\ epc = "off" /\ eres = Idle /\ envReads = 0 /\ compileCalls = 0
    /\ resource = NoResource

(* Version::parse on every input.                                          *)
InitParse ==
    /\ s \in StringsUpTo(MaxLen) /\ parsed = NotParsed
    /\ RestResolve /\ RestSync /\ RestEmbed
NextParse == apply_parse
SpecParse == InitParse /\ [][NextParse]_vars

(* One run of the build script in every repository and fault setting.      *)
InitResolve ==
    /\ env \in {e \in Envs : e.tagAt <= e.head}
    /\ rpc = "main" /\ ran = <<>> /\ directives = <<>>
    /\ ver = NoVersion /\ mainRes = NoVersion
    /\ RestParse /\ RestSync /\ RestEmbed
NextResolve ==
    \/ main_out_dir
    \/ get_version_probe
    \/ rerun_if_git_ref_changed
    \/ get_version_describe
    \/ get_version_rev_parse
    \/ main_write
SpecResolve == InitResolve /\ [][NextResolve]_vars

(* The npm_version executable run up to MaxRuns times, one run after the   *)
(* other, on one manifest.                                                 *)
InitSync ==
    /\ file \in InitialFiles
    /\ budget = [p \in Procs |-> IF p = 1 THEN MaxRuns ELSE 0]
    /\ pc = [p \in Procs |-> "idle"]
    /\ raw = [p \in Procs |-> Sentinel]
    /\ arg = [p \in Procs |-> Version_default]
    /\ content = [p \in Procs |-> [pre |-> <<>>, text |-> <<>>]]
    /\ out = [p \in Procs |-> <<>>]
    /\ pos = [p \in Procs |-> 0]
    /\ res = [p \in Procs |-> Idle]
    /\ runs = <<>> /\ writeLog = <<>>
    /\ RestParse /\ RestResolve /\ RestEmbed
NextSync ==
    \E p \in Procs :
        \/ npm_version_main(p)
        \/ read_ok(p)
        \/ read_fail(p)
        \/ transform(p)
        \/ create_ok(p)
        \/ create_fail(p)
        \/ write_chunk(p)
        \/ write_fail(p)
SpecSync == InitSync /\ [][NextSync]_vars

(* Two processes, each running the executable once on the same manifest.   *)
InitRace ==
    /\ file \in InitialFiles
    /\ budget = [p \in Procs |-> 1]
    /\ pc = [p \in Procs |-> "idle"]
    /\ raw = [p \in Procs |-> Sentinel]
    /\ arg = [p \in Procs |-> Version_default]
    /\ content = [p \in Procs |-> [pre |-> <<>>, text |-> <<>>]]
    /\ out = [p \in Procs |-> <<>>]
    /\ pos = [p \in Procs |-> 0]
    /\ res = [p \in Procs |-> Idle]
    /\ runs = <<>> /\ writeLog = <<>>
    /\ RestParse /\ RestResolve /\ RestEmbed
SpecRace == InitRace /\ [][NextSync]_vars

(* cdylib_win_rc for every target, caller and environment.                 *)
InitEmbed ==
    /\ ecfg \in EmbedConfigs
    /\ epc = "start" /\ eres = Idle /\ envReads = 0 /\ compileCalls = 0
    /\ resource = NoResource
    /\ RestParse /\ RestResolve /\ RestSync
NextEmbed ==
    \/ cdylib_check_target
    \/ cdylib_read_pkg_name
    \/ cdylib_compile
SpecEmbed == InitEmbed /\ [][NextEmbed]_vars

Init == InitResolve
Next == NextResolve
Spec == SpecResolve

----------------------------------------------------------------------------
(* Properties.                                                             *)
----------------------------------------------------------------------------
(* The grammar of the specification, written without the parser: 'v', then *)
(* three non-empty runs of ASCII digits separated by two '.'.              *)
RECURSIVE SplitAtDots(_, _, _)
SplitAtDots(b, i, cur) ==
    IF i > Len(b) THEN <<cur>>
    ELSE IF b[i] = 46 THEN <<cur>> \o SplitAtDots(b, i + 1, <<>>)
    ELSE SplitAtDots(b, i + 1, Append(cur, b[i]))
IsDigits(seg) == seg # <<>> /\ \A i \in 1..Len(seg) : seg[i] \in 48..57
RECURSIVE DecimalValue(_)
DecimalValue(seg) ==
    IF seg = <<>> THEN 0
    ELSE DecimalValue(SubSeq(seg, 1, Len(seg) - 1)) * 10 + (seg[Len(seg)] - 48)
InGrammar(str) ==
    /\ str # <<>> /\ str[1] = 118
    /\ LET segs == SplitAtDots(str, 2, <<>>) IN
       Len(segs) = 3 /\ \A i \in 1..3 : IsDigits(segs[i])
GrammarVersion(str) ==
    LET segs == SplitAtDots(str, 2, <<>>) IN
    Version_new(DecimalValue(segs[1]), DecimalValue(segs[2]), DecimalValue(segs[3]))

(* C1: Version::parse(s) returns a Version exactly when s is in the        *)
(* grammar (so "v1..22" and "v10.2." are rejected), and the Version holds  *)
(* the decimal values of the three segments.                               *)
C1_ParseIsGrammar ==
    parsed.done =>
        parsed.val = (IF InGrammar(s) THEN Some(GrammarVersion(s)) ELSE None)

(* What the loop accepts: at least six bytes, 'v', then only digits and    *)
(* exactly two '.'; an empty segment counts as 0.                          *)
ParseAcceptsEmptySegments ==
    parsed.done =>
        LET segs == SplitAtDots(s, 2, <<>>) IN
        parsed.val =
            (IF /\ Len(s) >= 6 /\ s[1] = 118 /\ Len(segs) = 3
                /\ \A i \in 1..3 : segs[i] = <<>> \/ IsDigits(segs[i])
             THEN Some(GrammarVersion(s)) ELSE None)

----------------------------------------------------------------------------
(* get_version has returned (to main).                                     *)
Returned == rpc = "write" \/ (rpc = "done" /\ env.outDir # "unset")
Branch == RunCommand(env, "branch")
Describe == RunCommand(env, "describe")
RevParse == RunCommand(env, "revparse")
(* A query yields a result: it exits successfully with output that is not  *)
(* empty once trimmed.                                                     *)
Yields(o) == o.kind = "exit" /\ o.success /\ Trim(o.stdout) # <<>>
(* A query is fatal: it cannot be launched, or it exits successfully with  *)
(* output that is not valid UTF-8.                                         *)
Fatal(o) == o.kind = "spawn_err" \/ (o.kind = "exit" /\ o.success /\ ~o.utf8)
Ran(cmd) == \E i \in 1..Len(ran) : ran[i] = cmd

(* C2, as stated: probe fails -> "undefined", neither query run; else the  *)
(* describe output when that query yields a result, and then no short-hash *)
(* query; else the short-hash output when that yields one; else            *)
(* "undefined".                                                            *)
C2_Ladder ==
    Returned =>
        IF ~valid_git_repo(env)
        THEN ver = Ok(Sentinel) /\ ~Ran("describe") /\ ~Ran("revparse")
        ELSE IF Yields(Describe)
        THEN ver = Ok(Trim(Describe.stdout)) /\ ~Ran("revparse")
        ELSE /\ Ran("revparse")
             /\ ver = (IF Yields(RevParse) THEN Ok(Trim(RevParse.stdout))
                       ELSE Ok(Sentinel))

(* C2, amended: the same ladder, except that a query which cannot be       *)
(* launched, or exits successfully with undecodable output, ends           *)
(* get_version with an error and no later query is run.                    *)
C2_LadderUnlessFatal ==
    Returned =>
        IF ~valid_git_repo(env)
        THEN ver = Ok(Sentinel) /\ ran = <<"status">>
        ELSE IF Fatal(Branch)
        THEN ~ver.ok /\ ran = <<"status", "branch">>
        ELSE IF Fatal(Describe)
        THEN ~ver.ok /\ ran = <<"status", "branch", "describe">>
        ELSE IF Yields(Describe)
        THEN ver = Ok(Trim(Describe.stdout)) /\ ran = <<"status", "branch", "describe">>
        ELSE /\ ran = <<"status", "branch", "describe", "revparse">>
             /\ IF Fatal(RevParse) THEN ~ver.ok
                ELSE IF Yields(RevParse) THEN ver = Ok(Trim(RevParse.stdout))
                ELSE ver = Ok(Sentinel)

(* The ladder fell through a describe query that found no tag to the       *)
(* short hash.                                                             *)
C2_Witness ==
    /\ rpc = "done" /\ env.probe = "ok" /\ env.head = 2 /\ env.tagAt = 0
    /\ \A c \in DOMAIN env.fault : env.fault[c] = "none"
    /\ ver = Ok(Hash(2))
    /\ ran = <<"status", "branch", "describe", "revparse">>

(* A repository git answers about without trouble, with a tag and the      *)
(* HEAD commit after it.                                                   *)
Healthy == env.probe = "ok" /\ \A c \in DOMAIN env.fault : env.fault[c] = "none"
PastTag == Healthy /\ 0 < env.tagAt /\ env.tagAt < env.head

C6_NeverAnError == Returned => ver.ok

(* C6, amended: a failed probe, a non-zero exit and an empty output never  *)
(* surface as errors; get_version returns an error exactly when, after a   *)
(* successful probe, a query it ran (current branch, describe, short hash) *)
(* could not be launched or exited successfully with undecodable output;   *)
(* main fails exactly on that error, an unset OUT_DIR or a failed write    *)
(* of version.txt.                                                         *)
C6_ErrorOnlyWhenFatal ==
    /\ Returned =>
        /\ ver.ok <=> ~(valid_git_repo(env) /\
                         \E c \in {"branch", "describe", "revparse"} :
                             Ran(c) /\ Fatal(RunCommand(env, c)))
        /\ ver.ok => ver.val # <<>>
    /\ rpc = "done" => (mainRes.ok <=> (ver.ok /\ env.outDir = "ok"))

C6_Witness ==
    /\ rpc = "done" /\ env.probe = "ok" /\ env.fault["branch"] = "bad_utf8"
    /\ ~ver.ok /\ ~mainRes.ok /\ ran = <<"status", "branch">>

----------------------------------------------------------------------------
(* Reading a manifest as a document.                                       *)
Doc(text) == from_str(text).doc
IsObjectFile(text) == from_str(text).ok /\ Doc(text).t = "object"
VersionOf(doc) ==
    LET i == KeyIndex(doc.entries, KeyVersion, 1) IN
    IF i = 0 THEN None ELSE Some(doc.entries[i].v)
RECURSIVE OtherEntries(_)
OtherEntries(entries) ==
    IF entries = <<>> THEN <<>>
    ELSE (IF entries[1].k = KeyVersion THEN <<>> ELSE <<entries[1]>>)
         \o OtherEntries(Tail(entries))
RECURSIVE KeyOrder(_)
KeyOrder(entries) ==
    IF entries = <<>> THEN <<>> ELSE <<entries[1].k>> \o KeyOrder(Tail(entries))
Dotted(v) == Dec(v.major) \o <<46>> \o Dec(v.minor) \o <<46>> \o Dec(v.patch)

(* The frame of one run: a document of the same kind, "version" set, the   *)
(* other members and the order of the keys already there unchanged.        *)
FrameKept(r) ==
    /\ from_str(r.post).ok
    /\ Doc(r.post).t = Doc(r.pre).t
    /\ VersionOf(Doc(r.post)) = Some(Dotted(r.v))
    /\ OtherEntries(Doc(r.post).entries) = OtherEntries(Doc(r.pre).entries)
    /\ SubSeq(KeyOrder(Doc(r.post).entries), 1, Len(Doc(r.pre).entries))
           = KeyOrder(Doc(r.pre).entries)

(* C4: after a successful npm_version(v) on any manifest it could read     *)
(* and parse, the file is a valid document whose "version" is v's dotted   *)
(* form, with every other key, value and the key order as before.          *)
C4_VersionSetFrameKept ==
    \A i \in 1..Len(runs) : runs[i].res.ok => FrameKept(runs[i])

(* The same for the manifests that are JSON objects.                       *)
ObjectFrameKept ==
    \A i \in 1..Len(runs) :
        runs[i].res.ok /\ IsObjectFile(runs[i].pre) => FrameKept(runs[i])

(* C5: two successful runs in succession with the same version leave the   *)
(* same bytes; a normalized manifest whose version is already v is left    *)
(* as it is.                                                               *)
NormalizedFiles == {Normalized(d) : d \in Docs}
C5_Idempotent ==
    /\ \A i \in 1..(Len(runs) - 1) :
           runs[i].res.ok /\ runs[i + 1].res.ok /\ runs[i].v = runs[i + 1].v
               => runs[i + 1].post = runs[i].post
    /\ \A i \in 1..Len(runs) :
           /\ runs[i].res.ok
           /\ runs[i].pre \in NormalizedFiles
           /\ VersionOf(Doc(runs[i].pre)) = Some(Dotted(runs[i].v))
           => runs[i].post = runs[i].pre

(* A manifest not in normalized form was rewritten, and the run after it   *)
(* with the same version wrote the same bytes again.                       *)
C5_Witness ==
    /\ Len(runs) = 2
    /\ runs[1].res.ok /\ runs[2].res.ok /\ runs[1].v = runs[2].v
    /\ runs[1].v = Version_new(10, 2, 3)
    /\ runs[1].pre # runs[1].post
    /\ runs[2].pre = runs[1].post /\ runs[2].post = runs[1].post

(* C7: a run that ends in an error leaves the manifest as it was or as a   *)
(* complete valid document.                                                *)
C7_NoCorruptFileOnError ==
    \A i \in 1..Len(runs) :
        ~runs[i].res.ok =>
            runs[i].post = runs[i].pre \/ from_str(runs[i].post).ok

(* C9: once both concurrent runs have returned successfully, the file is   *)
(* the complete output of the run that wrote last.                         *)
C9_LastWriterWins ==
    (/\ \A p \in Procs : pc[p] = "idle" /\ budget[p] = 0
     /\ Len(runs) = Cardinality(Procs)
     /\ \A i \in 1..Len(runs) : runs[i].res.ok)
        => file = out[writeLog[Len(writeLog)]]

(* C10: when VERSION is not accepted by Version::parse, the executable     *)
(* applies Version 0.0.0: a successful run leaves "version": "0.0.0" in    *)
(* the manifest.                                                           *)
C10_FallbackToZero ==
    /\ \A p \in Procs :
           pc[p] # "idle" /\ Version_parse(raw[p]) = None
               => arg[p] = Version_new(0, 0, 0)
    /\ \A i \in 1..Len(runs) :
           Version_parse(runs[i].raw) = None =>
               /\ runs[i].v = Version_new(0, 0, 0)
               /\ runs[i].res.ok /\ IsObjectFile(runs[i].pre)
                      => VersionOf(Doc(runs[i].post)) = Some(<<48, 46, 48, 46, 48>>)

C10_Witness ==
    \E i \in 1..Len(runs) :
        /\ runs[i].raw = Sentinel /\ runs[i].res.ok
        /\ VersionOf(Doc(runs[i].pre)) = Some(<<49, 46, 50, 46, 51>>)
        /\ VersionOf(Doc(runs[i].post)) = Some(<<48, 46, 48, 46, 48>>)

(* The build scripts: an unparseable VERSION embeds 0.0.0.                 *)
BuildScriptFallsBackToZero ==
    epc = "done" /\ ecfg.caller = "build" /\ Version_parse(ecfg.raw) = None
        /\ compileCalls > 0
        => resource.version = <<48, 46, 48, 46, 48, 46, 48>>

----------------------------------------------------------------------------
(* C8: off the msvc target cdylib_win_rc does nothing: it returns success  *)
(* without reading CARGO_PKG_NAME and without compiling a resource.        *)
C8_NoOpOffMsvc ==
    ecfg.targetEnv # "msvc" =>
        /\ envReads = 0 /\ compileCalls = 0 /\ resource = NoResource
        /\ epc \in {"off", "start", "done"}
        /\ epc = "done" => eres = Ok(<<>>)

(* A non-msvc build where both the variable and the compiler would have    *)
(* failed.                                                                 *)
C8_Witness ==
    /\ epc = "done" /\ ecfg.targetEnv = "gnu"
    /\ ~ecfg.pkgName /\ ~ecfg.compileOk /\ eres.ok

====
